---- MODULE Spec2Model ----
(***************************************************************************)
(* Model of the Mission Control "Junction" spoke (src/spoke/junction.py)   *)
(* and of its morse task (src/spoke/tasks/morse.py).                       *)
(*                                                                         *)
(* The main thread boots (read_services) and then cycles poll / process /  *)
(* kick_idle while RUN holds.  process() starts one thread per ready       *)
(* command; each thread runs interpret() and is modelled as a sequence of  *)
(* atomic steps, one per access to state shared between threads (SERVICES, *)
(* RUN, the persisted file, device.tasked, client.active).                 *)
(***************************************************************************)
EXTENDS Naturals, Sequences, FiniteSets, TLC

VARIABLES SERVICES, store, RUN, CLIENTS, active, cmds, idle, tasked,
          mainpc, threads

vars == <<SERVICES, store, RUN, CLIENTS, active, cmds, idle, tasked,
          mainpc, threads>>

(***************************************************************************)
(* Program constants                                                       *)
(***************************************************************************)
IDLE_TIMEOUT == 30

PROMPT == "$junction > "

None == "None"

ALL_SERVICES ==
    [n \in {"morse", "print", "light", "lamp"} |->
        CASE n = "morse" -> "spoke.tasks.morse"
          [] n = "print" -> "spoke.tasks.printer"
          [] n = "light" -> "spoke.tasks.light"
          [] n = "lamp"  -> "spoke.tasks.lamp"]

COMMANDS ==
    {"help", "end", "exit", "stop", "service", "discover", "status",
     "enable", "disable", "save"}

\* dict iteration order of COMMANDS.keys(), joined with ', '
CommandNames ==
    "help, end, exit, stop, service, discover, status, enable, disable, save"

COMMANDS_HELP ==
    [n \in COMMANDS |->
        CASE n = "help"     -> "... you've got this one."
          [] n = "end"      -> "Terminates Telnet session."
          [] n = "exit"     -> "Terminates Telnet session."
          [] n = "stop"     -> "Stops the junction service, closing all connections."
          [] n = "service"  -> "Perform a service command.\nservice <name> <*action> <*args>"
          [] n = "discover" -> "Return a formatted list of services and actions."
          [] n = "status"   -> "Return the status of a service.\nstatus <service>"
          [] n = "enable"   -> "Enable a service on the device.\nenable <name> <*args>"
          [] n = "disable"  -> "Disable a service on the device.\ndisable <name> <*args>"
          [] n = "save"     -> "Save enabled services to local server files for recovery after restart."]

(***************************************************************************)
(* Bounds of the model                                                     *)
(***************************************************************************)
MaxClients == 3        \* client objects that can exist at once
MaxThreads == 3        \* lines buffered or being interpreted at once
MaxIdle == 45          \* the idle clock is not advanced beyond this
MaxFileLen == 2        \* names in a persisted file found at the first boot
TickStep == 15         \* granularity of the idle clock

ClientIds == 1..MaxClients

ThreadIds == 1..MaxThreads

(***************************************************************************)
(* A Python dict, as the sequence of its <<key, value>> items in insertion *)
(* order.                                                                  *)
(***************************************************************************)
Keys(d) == [i \in 1..Len(d) |-> d[i][1]]

KeySet(d) == {d[i][1] : i \in 1..Len(d)}

\* d.get(k)
Get(d, k) ==
    IF k \in KeySet(d)
    THEN d[CHOOSE i \in 1..Len(d) : d[i][1] = k][2]
    ELSE None

\* an assignment that always adds an item
Put_append(d, k, v) == Append(d, <<k, v>>)

\* d[k] = v : an existing key keeps its position
Put(d, k, v) ==
    IF k \in KeySet(d)
    THEN [i \in 1..Len(d) |-> IF d[i][1] = k THEN <<k, v>> ELSE d[i]]
    ELSE Append(d, <<k, v>>)

\* d.pop(k), for k a key of d
Pop(d, k) == SelectSeq(d, LAMBDA item : item[1] # k)

(***************************************************************************)
(* read_services / save_services                                           *)
(***************************************************************************)
NoFile == [exists |-> FALSE, names |-> <<>>]

\* a dump that keeps only the first key
Pickled_first(d) ==
    [exists |-> TRUE, names |-> IF d = <<>> THEN <<>> ELSE <<Keys(d)[1]>>]

\* pickle.dump(list(SERVICES.keys()), output)
Pickled(d) == [exists |-> TRUE, names |-> Keys(d)]

\* the for loop of read_services: ALL_SERVICES[service] raises KeyError on a
\* name that is no key, which ends the loop (and nothing catches it)
RECURSIVE LoadNames(_, _)
LoadNames(d, names) ==
    IF names = <<>>
    THEN [services |-> d, raised |-> None]
    ELSE IF Head(names) \notin DOMAIN ALL_SERVICES
         THEN [services |-> d, raised |-> "KeyError"]
         ELSE LET mapped == ALL_SERVICES[Head(names)]
              IN  IF mapped # None
                  THEN LoadNames(Put(d, Head(names), ALL_SERVICES[Head(names)]),
                                 Tail(names))
                  ELSE LoadNames(d, Tail(names))

read_services(d, file) ==
    IF file.exists
    THEN LoadNames(d, file.names)
    ELSE [services |-> d, raised |-> None]     \* FileNotFoundError is caught

\* the module runs read_services() before the loop; an exception it lets
\* through ends the process
ReadServices ==
    /\ mainpc = "read_services"
    /\ LET r == read_services(SERVICES, store)
       IN  /\ SERVICES' = r.services
           /\ mainpc' = IF r.raised = None THEN "poll" ELSE "crashed"
    /\ UNCHANGED <<store, RUN, CLIENTS, active, cmds, idle, tasked, threads>>

(***************************************************************************)
(* Strings that the code takes apart (command lines, tokens, morse text)   *)
(* are sequences of one-character strings; Str gives the Python string.    *)
(***************************************************************************)
RECURSIVE Str(_)
Str(w) == IF w = <<>> THEN "" ELSE Head(w) \o Str(Tail(w))

Whitespace == {" ", "\t"}

\* str.split(): the maximal runs of characters that are not whitespace,
\* in the order of their first characters
WordStarts(line) ==
    {i \in 1..Len(line) :
        line[i] \notin Whitespace /\ (i = 1 \/ line[i - 1] \in Whitespace)}

WordEnd(line, s) ==
    CHOOSE e \in s..Len(line) :
        /\ \A j \in s..e : line[j] \notin Whitespace
        /\ e = Len(line) \/ line[e + 1] \in Whitespace

Split(line) ==
    [k \in 1..Cardinality(WordStarts(line)) |->
        LET s == CHOOSE s \in WordStarts(line) :
                     Cardinality({x \in WordStarts(line) : x < s}) = k - 1
        IN  SubSeq(line, s, WordEnd(line, s))]

UpperCase == <<"A", "B", "C", "D", "E", "F", "G", "H", "I", "J", "K", "L", "M",
               "N", "O", "P", "Q", "R", "S", "T", "U", "V", "W", "X", "Y", "Z">>

LowerCase == <<"a", "b", "c", "d", "e", "f", "g", "h", "i", "j", "k", "l", "m",
               "n", "o", "p", "q", "r", "s", "t", "u", "v", "w", "x", "y", "z">>

\* str.lower() and str.upper()
Lower(w) ==
    [i \in 1..Len(w) |->
        IF \E k \in 1..26 : UpperCase[k] = w[i]
        THEN LowerCase[CHOOSE k \in 1..26 : UpperCase[k] = w[i]]
        ELSE w[i]]

Upper(w) ==
    [i \in 1..Len(w) |->
        IF \E k \in 1..26 : LowerCase[k] = w[i]
        THEN UpperCase[CHOOSE k \in 1..26 : LowerCase[k] = w[i]]
        ELSE w[i]]

(***************************************************************************)
(* The command lines clients send.                                         *)
(***************************************************************************)
w_help == <<"h", "e", "l", "p">>

w_end == <<"e", "n", "d">>

w_exit == <<"e", "x", "i", "t">>

w_stop == <<"s", "t", "o", "p">>

w_service == <<"s", "e", "r", "v", "i", "c", "e">>

w_discover == <<"d", "i", "s", "c", "o", "v", "e", "r">>

w_status == <<"s", "t", "a", "t", "u", "s">>

w_enable == <<"e", "n", "a", "b", "l", "e">>

w_disable == <<"d", "i", "s", "a", "b", "l", "e">>

w_save == <<"s", "a", "v", "e">>

w_morse == <<"m", "o", "r", "s", "e">>

w_print == <<"p", "r", "i", "n", "t">>

w_lamp == <<"l", "a", "m", "p">>

w_bogus == <<"b", "o", "g", "u", "s">>

w_HELP == <<"H", "E", "L", "P">>

w_Enable == <<"E", "n", "a", "b", "l", "e">>

w_Bogus == <<"B", "o", "g", "u", "s">>

w_e == <<"e">>

w_dot == <<"e", ".">>

w_hash == <<"#">>

SP == <<" ">>

\* the words of a line, one space between them
RECURSIVE Line(_)
Line(words) ==
    IF Len(words) <= 1 THEN (IF words = <<>> THEN <<>> ELSE words[1])
    ELSE words[1] \o SP \o Line(Tail(words))

\* lines that work on the registry and on one enabled service
RegistryLines ==
    { Line(<<w_enable, w_morse>>), Line(<<w_enable, w_bogus>>),
      Line(<<w_disable, w_morse>>),
      Line(<<w_service, w_morse, w_e>>), Line(<<w_status, w_morse>>),
      Line(<<w_discover>>), Line(<<w_save>>), Line(<<w_stop>>) }

\* every kind of command line
CommandLines ==
    { <<>>, SP, <<"\t">> \o SP,
      Line(<<w_bogus>>), Line(<<w_Bogus, w_morse>>),
      Line(<<w_help>>), Line(<<w_HELP>>), SP \o Line(<<w_help, w_enable>>) \o SP,
      Line(<<w_help, w_bogus>>), Line(<<w_help, w_HELP>>),
      Line(<<w_end>>), Line(<<w_exit>>), Line(<<w_stop>>), Line(<<w_save>>),
      Line(<<w_discover>>),
      Line(<<w_service>>), Line(<<w_service, w_morse>>),
      Line(<<w_service, w_morse, w_e>>), Line(<<w_service, w_morse, w_dot>>),
      Line(<<w_service, w_morse, w_hash>>), Line(<<w_service, w_print>>),
      Line(<<w_service, w_print, w_e>>), Line(<<w_service, w_bogus>>),
      Line(<<w_status>>), Line(<<w_status, w_morse>>), Line(<<w_status, w_print>>),
      Line(<<w_status, w_lamp>>), Line(<<w_status, w_bogus>>),
      Line(<<w_enable>>), Line(<<w_enable, w_morse>>), Line(<<w_Enable, w_morse>>),
      Line(<<w_enable, w_lamp>>),
      Line(<<w_enable, w_bogus>>),
      Line(<<w_disable>>), Line(<<w_disable, w_morse>>),
      Line(<<w_disable, w_bogus>>) }

IdleLines == { Line(<<w_help>>) }

\* a morse transmission from every session but the last, which asks for help
MorseLine(c) == IF c < MaxClients THEN Line(<<w_service, w_morse, w_e>>)
                ELSE Line(<<w_help>>)

Lines == RegistryLines \cup CommandLines \cup IdleLines
             \cup {MorseLine(c) : c \in ClientIds}

(***************************************************************************)
(* A thread started by process(): threading.Thread(target=interpret,       *)
(* args=(client, command)).  The record holds interpret's locals; the      *)
(* first statements of interpret touch nothing shared, so components,      *)
(* command and args are given their values as the thread is made.          *)
(***************************************************************************)
\* components = command.split(); command = components[0].lower();
\* args = components[1:], with their values for every line of Lines
interpret_locals(line) ==
    LET components == Split(line)
    IN  [n |-> Len(components),
         command |-> IF Len(components) > 0 THEN Str(Lower(components[1])) ELSE "",
         args |-> IF Len(components) > 0 THEN Tail(components) ELSE <<>>]

Interpreted == { <<line, interpret_locals(line)>> : line \in Lines }

NewThread(c, line) ==
    LET locals == (CHOOSE p \in Interpreted : p[1] = line)[2]
    IN  [c |-> c, line |-> line, pc |-> "start", out |-> <<>>,
         n |-> locals.n, command |-> locals.command, args |-> locals.args,
         svc |-> None, pos |-> 0, used |-> 0, build |-> "", todo |-> <<>>]

\* a thread identifier that no running thread has
NoThread ==
    [c |-> 0, line |-> <<>>, pc |-> "none", out |-> <<>>, n |-> 0,
     command |-> "", args |-> <<>>,
     svc |-> None, pos |-> 0, used |-> 0, build |-> "", todo |-> <<>>]

(***************************************************************************)
(* The main thread: while RUN: telnet_server.poll(); process(); kick_idle()*)
(*                                                                         *)
(* poll() is miniboa's TelnetServer.poll: it first drops every client      *)
(* whose active flag is off (calling on_disconnect), then serves what      *)
(* select() reports: a new connection (on_connect), received data          *)
(* (lines are appended to the client's command list, cmd_ready is set and  *)
(* its idle clock restarts) or a lost connection (deactivate).  One poll   *)
(* serves at most one such event here.                                     *)
(***************************************************************************)
IsActive(c) == active[c]

\* on_disconnect for every inactive client: CLIENTS.remove(client)
Dropped == {CLIENTS[i] : i \in {j \in 1..Len(CLIENTS) : ~active[CLIENTS[j]]}}

AfterDisconnects == SelectSeq(CLIENTS, IsActive)

Running == {i \in ThreadIds : threads[i] # NoThread}

\* the lines received and not yet interpreted to their end
RECURSIVE Buffered(_)
Buffered(k) == IF k = 0 THEN 0 ELSE Len(cmds[k]) + Buffered(k - 1)

Outstanding == Buffered(MaxClients) + Cardinality(Running)

ThreadClients == {threads[i].c : i \in Running}

Connected == {CLIENTS[i] : i \in 1..Len(CLIENTS)}

PollCommon ==
    /\ mainpc = "poll"
    /\ RUN
    /\ mainpc' = "process"
    /\ UNCHANGED <<SERVICES, store, RUN, tasked, threads>>

PollQuiet ==
    /\ PollCommon
    /\ CLIENTS' = AfterDisconnects
    /\ cmds' = [c \in ClientIds |-> IF c \in Dropped THEN <<>> ELSE cmds[c]]
    /\ idle' = [c \in ClientIds |-> IF c \in Dropped THEN 0 ELSE idle[c]]
    /\ UNCHANGED active

\* on_connect(client): CLIENTS.append(client).  The new client object gets
\* the least identifier that no object in use has: one that is neither in
\* CLIENTS nor held by a running thread.
PollAccept(c) ==
    /\ PollCommon
    /\ c \notin Connected \cup ThreadClients
    /\ \A d \in ClientIds : d < c => d \in Connected \cup ThreadClients
    /\ CLIENTS' = Append(AfterDisconnects, c)
    /\ active' = [active EXCEPT ![c] = TRUE]
    /\ cmds' = [d \in ClientIds |-> IF d \in Dropped \/ d = c THEN <<>> ELSE cmds[d]]
    /\ idle' = [d \in ClientIds |-> IF d \in Dropped \/ d = c THEN 0 ELSE idle[d]]

\* socket_recv() of an active client completes the lines ls
PollRecv(c, ls) ==
    /\ PollCommon
    /\ c \in Connected
    /\ active[c]
    /\ Outstanding + Len(ls) <= MaxThreads
    /\ CLIENTS' = AfterDisconnects
    /\ cmds' = [d \in ClientIds |-> IF d \in Dropped THEN <<>>
                                    ELSE IF d = c THEN cmds[d] \o ls ELSE cmds[d]]
    /\ idle' = [d \in ClientIds |-> IF d \in Dropped \/ d = c THEN 0 ELSE idle[d]]
    /\ UNCHANGED active

\* socket_recv() raises ConnectionLost: client.deactivate()
PollLost(c) ==
    /\ PollCommon
    /\ c \in Connected
    /\ active[c]
    /\ CLIENTS' = AfterDisconnects
    /\ active' = [active EXCEPT ![c] = FALSE]
    /\ cmds' = [d \in ClientIds |-> IF d \in Dropped THEN <<>> ELSE cmds[d]]
    /\ idle' = [d \in ClientIds |-> IF d \in Dropped THEN 0 ELSE idle[d]]

\* the loop condition read as False: logging.info("Shutting down.")
Shutdown ==
    /\ mainpc = "poll"
    /\ ~RUN
    /\ mainpc' = "shutdown"
    /\ UNCHANGED <<SERVICES, store, RUN, CLIENTS, active, cmds, idle, tasked, threads>>

\* a process() that does not look at client.active
Ready_any(c) == cmds[c] # <<>>

Ready(c) == active[c] /\ cmds[c] # <<>>

\* process(): a thread running interpret(client, client.get_command()) for
\* every client that is active and has a command ready, in the order of
\* CLIENTS.  The k-th thread started takes the k-th free identifier.
RECURSIVE Ascending(_)
Ascending(S) ==
    IF S = {} THEN <<>>
    ELSE LET m == CHOOSE x \in S : \A y \in S : x <= y
         IN  <<m>> \o Ascending(S \ {m})

\* the threads after process() has started one for each client of ready
started(ready, free) ==
    [i \in ThreadIds |->
        IF \E k \in 1..Len(ready) : free[k] = i
        THEN LET k == CHOOSE k \in 1..Len(ready) : free[k] = i
             IN  NewThread(ready[k], Head(cmds[ready[k]]))
        ELSE threads[i]]

\* command lists from which process() takes nothing
taken_kept(ready) == cmds

\* the command lists after get_command() on each client of ready
taken(ready) ==
    [c \in ClientIds |->
        IF \E k \in 1..Len(ready) : ready[k] = c THEN Tail(cmds[c]) ELSE cmds[c]]

\* a process() that joins the threads it started before it goes on
Process_joined ==
    /\ mainpc = "process"
    /\ Running = {}
    /\ Len(SelectSeq(CLIENTS, Ready)) <= Cardinality(ThreadIds \ Running)
    /\ threads' = started(SelectSeq(CLIENTS, Ready), Ascending(ThreadIds \ Running))
    /\ cmds' = taken(SelectSeq(CLIENTS, Ready))
    /\ mainpc' = "kick_idle"
    /\ UNCHANGED <<SERVICES, store, RUN, CLIENTS, active, idle, tasked>>

Process ==
    /\ mainpc = "process"
    /\ Len(SelectSeq(CLIENTS, Ready)) <= Cardinality(ThreadIds \ Running)
    /\ threads' = started(SelectSeq(CLIENTS, Ready), Ascending(ThreadIds \ Running))
    /\ cmds' = taken(SelectSeq(CLIENTS, Ready))
    /\ mainpc' = "kick_idle"
    /\ UNCHANGED <<SERVICES, store, RUN, CLIENTS, active, idle, tasked>>

\* a sweep that closes a client at the timeout itself
kick_idle_at(c) == IF idle[c] >= IDLE_TIMEOUT THEN FALSE ELSE active[c]

\* close(client, None) for every client of CLIENTS idle for more than
\* IDLE_TIMEOUT
kick_idle(c) == IF idle[c] > IDLE_TIMEOUT THEN FALSE ELSE active[c]

KickIdle ==
    /\ mainpc = "kick_idle"
    /\ active' = [c \in ClientIds |->
                     IF c \in Connected THEN kick_idle(c) ELSE active[c]]
    /\ mainpc' = "poll"
    /\ UNCHANGED <<SERVICES, store, RUN, CLIENTS, cmds, idle, tasked, threads>>

\* time passes: client.idle() is the time since the client's last input
Tick ==
    /\ CLIENTS # <<>>
    /\ \A i \in 1..Len(CLIENTS) : idle[CLIENTS[i]] + TickStep <= MaxIdle
    /\ idle' = [c \in ClientIds |->
                   IF c \in Connected THEN idle[c] + TickStep ELSE idle[c]]
    /\ UNCHANGED <<SERVICES, store, RUN, CLIENTS, active, cmds, tasked, mainpc, threads>>

\* the process ends (after the loop, on an uncaught exception of the main
\* thread, or killed) and is started again: module state is initialised
\* anew, the persisted file stays
Restart ==
    /\ SERVICES' = <<>>
    /\ RUN' = TRUE
    /\ CLIENTS' = <<>>
    /\ active' = [c \in ClientIds |-> FALSE]
    /\ cmds' = [c \in ClientIds |-> <<>>]
    /\ idle' = [c \in ClientIds |-> 0]
    /\ tasked' = FALSE
    /\ mainpc' = "read_services"
    /\ threads' = [i \in ThreadIds |-> NoThread]
    /\ UNCHANGED store

(***************************************************************************)
(* What a command writes to its session: tell, error, okay, client.send    *)
(***************************************************************************)
send(out, text) == Append(out, text)

tell(out, message) == send(out, message \o "\n")

error(out) == tell(out, "ERROR")

okay(out) == tell(out, "OKAY")

(***************************************************************************)
(* interpret(client, command), one thread per command.  Thread i is        *)
(* threads[i]; its fields are the locals of interpret and of the handler   *)
(* it calls.                                                               *)
(***************************************************************************)
\* command = components[0].lower()
Command(t) == t.command

\* args = components[1:]
Args(t) == t.args

\* target = str(args[0])
Target(t) == Str(Args(t)[1])

Starts(i, command) ==
    /\ i \in ThreadIds
    /\ threads[i].pc = "start"
    /\ threads[i].n > 0
    /\ Command(threads[i]) = command

At(i, pc) ==
    /\ i \in ThreadIds
    /\ threads[i].pc = pc

\* the handler returns and interpret ends with client.send("$junction > ")
Return(t, out) == [t EXCEPT !.pc = "done", !.out = send(out, PROMPT)]

\* an exception leaves the handler and interpret: the thread ends with it
Raise(t, exception) == [t EXCEPT !.pc = exception]

Exceptions == {"AttributeError", "KeyError", "RuntimeError"}

Set(i, t) == threads' = [threads EXCEPT ![i] = t]

\* an interpret that writes nothing but the prompt for a line without tokens
InterpretEmpty_silent(i) ==
    /\ At(i, "start")
    /\ threads[i].n = 0
    /\ Set(i, Return(threads[i], threads[i].out))
    /\ UNCHANGED <<SERVICES, store, RUN, CLIENTS, active, cmds, idle, tasked, mainpc>>

\* a line without tokens: client.send("")
InterpretEmpty(i) ==
    /\ At(i, "start")
    /\ threads[i].n = 0
    /\ Set(i, Return(threads[i], send(threads[i].out, "")))
    /\ UNCHANGED <<SERVICES, store, RUN, CLIENTS, active, cmds, idle, tasked, mainpc>>

\* a reply to an unknown command that names the line as it was typed
not_found_typed(t) ==
    tell(error(t.out), "Command '" \o Str(Split(t.line)[1]) \o "' not found.")

\* COMMANDS.get(command) is None: error(client), then tell(client, ...)
not_found(t) == tell(error(t.out), "Command '" \o Command(t) \o "' not found.")

InterpretUnknown(i) ==
    /\ At(i, "start")
    /\ threads[i].n > 0
    /\ Command(threads[i]) \notin COMMANDS
    /\ Set(i, Return(threads[i], not_found(threads[i])))
    /\ UNCHANGED <<SERVICES, store, RUN, CLIENTS, active, cmds, idle, tasked, mainpc>>

hlp(t) ==
    IF Len(Args(t)) = 0
    THEN tell(tell(t.out, "Available commands: " \o CommandNames),
              "For details, use help <command>.")
    ELSE LET name == Str(Args(t)[1])
         IN  IF name \notin DOMAIN COMMANDS_HELP
             THEN tell(error(t.out), "Command '" \o name \o "' not found.")
             ELSE tell(t.out, name \o ": " \o COMMANDS_HELP[name])

Hlp(i) ==
    /\ Starts(i, "help")
    /\ Set(i, Return(threads[i], hlp(threads[i])))
    /\ UNCHANGED <<SERVICES, store, RUN, CLIENTS, active, cmds, idle, tasked, mainpc>>

\* end / exit: close(client, args)
Close(i) ==
    /\ Starts(i, "end") \/ Starts(i, "exit")
    /\ active' = [active EXCEPT ![threads[i].c] = FALSE]
    /\ Set(i, Return(threads[i], threads[i].out))
    /\ UNCHANGED <<SERVICES, store, RUN, CLIENTS, cmds, idle, tasked, mainpc>>

\* a stop that does not write the file
StopSave_skipped(i) ==
    /\ Starts(i, "stop")
    /\ Set(i, [threads[i] EXCEPT !.pc = "stop_run"])
    /\ UNCHANGED <<SERVICES, store, RUN, CLIENTS, active, cmds, idle, tasked, mainpc>>

\* stop: save_services() ...
StopSave(i) ==
    /\ Starts(i, "stop")
    /\ store' = Pickled(SERVICES)
    /\ Set(i, [threads[i] EXCEPT !.pc = "stop_run"])
    /\ UNCHANGED <<SERVICES, RUN, CLIENTS, active, cmds, idle, tasked, mainpc>>

\* ... then RUN = False
StopRun(i) ==
    /\ At(i, "stop_run")
    /\ RUN' = FALSE
    /\ Set(i, Return(threads[i], threads[i].out))
    /\ UNCHANGED <<SERVICES, store, CLIENTS, active, cmds, idle, tasked, mainpc>>

Save(i) ==
    /\ Starts(i, "save")
    /\ store' = Pickled(SERVICES)
    /\ Set(i, Return(threads[i], okay(threads[i].out)))
    /\ UNCHANGED <<SERVICES, RUN, CLIENTS, active, cmds, idle, tasked, mainpc>>

\* an enable that does not look the name up in the catalog
enable_any(d, t) ==
    IF Len(Args(t)) < 1
    THEN [services |-> d, out |-> tell(t.out, COMMANDS_HELP["enable"])]
    ELSE [services |-> Put(d, Target(t), "spoke.tasks.morse"), out |-> okay(t.out)]

\* enable(client, args): the new value of SERVICES and the reply
enable(d, t) ==
    IF Len(Args(t)) < 1
    THEN [services |-> d, out |-> tell(t.out, COMMANDS_HELP["enable"])]
    ELSE IF Target(t) \notin DOMAIN ALL_SERVICES
         THEN [services |-> d,
               out |-> tell(error(t.out),
                            "Service '" \o Target(t) \o "' not available to enable.")]
         ELSE [services |-> Put(d, Target(t), ALL_SERVICES[Target(t)]),
               out |-> okay(t.out)]

\* an enable that also writes the file
Enable_saving(i) ==
    /\ Starts(i, "enable")
    /\ SERVICES' = enable(SERVICES, threads[i]).services
    /\ store' = Pickled(enable(SERVICES, threads[i]).services)
    /\ Set(i, Return(threads[i], enable(SERVICES, threads[i]).out))
    /\ UNCHANGED <<RUN, CLIENTS, active, cmds, idle, tasked, mainpc>>

Enable(i) ==
    /\ Starts(i, "enable")
    /\ SERVICES' = enable(SERVICES, threads[i]).services
    /\ Set(i, Return(threads[i], enable(SERVICES, threads[i]).out))
    /\ UNCHANGED <<store, RUN, CLIENTS, active, cmds, idle, tasked, mainpc>>

\* disable(client, args) up to its test "target not in SERVICES.keys()"
disable_check(d, t) ==
    IF Len(Args(t)) < 1
    THEN Return(t, tell(t.out, COMMANDS_HELP["disable"]))
    ELSE IF Target(t) \notin KeySet(d)
         THEN Return(t, tell(error(t.out),
                             "Service '" \o Target(t) \o "' not available to disable."))
         ELSE [t EXCEPT !.pc = "disable_pop"]

DisableCheck(i) ==
    /\ Starts(i, "disable")
    /\ Set(i, disable_check(SERVICES, threads[i]))
    /\ UNCHANGED <<SERVICES, store, RUN, CLIENTS, active, cmds, idle, tasked, mainpc>>

\* SERVICES.pop(target), which raises KeyError when target is no key
DisablePop(i) ==
    /\ At(i, "disable_pop")
    /\ LET t == threads[i]
       IN  IF Target(t) \in KeySet(SERVICES)
           THEN /\ SERVICES' = Pop(SERVICES, Target(t))
                /\ Set(i, Return(t, okay(t.out)))
           ELSE /\ SERVICES' = SERVICES
                /\ Set(i, Raise(t, "KeyError"))
    /\ UNCHANGED <<store, RUN, CLIENTS, active, cmds, idle, tasked, mainpc>>

(***************************************************************************)
(* The morse task (src/spoke/tasks/morse.py)                               *)
(***************************************************************************)
switcher ==
    [c \in {"A", "B", "C", "D", "E", "F", "G", "H", "I", "J", "K", "L", "M",
            "N", "O", "P", "Q", "R", "S", "T", "U", "V", "W", "X", "Y", "Z",
            "1", "2", "3", "4", "5", "6", "7", "8", "9", "0",
            ".", "!", "?", ",", " "} |->
        CASE c = "A" -> <<".", "-", " ">>
          [] c = "B" -> <<"-", ".", ".", ".", " ">>
          [] c = "C" -> <<"-", ".", "-", ".", " ">>
          [] c = "D" -> <<"-", ".", ".", " ">>
          [] c = "E" -> <<".", " ">>
          [] c = "F" -> <<".", ".", "-", ".", " ">>
          [] c = "G" -> <<"-", "-", ".", " ">>
          [] c = "H" -> <<".", ".", ".", ".", " ">>
          [] c = "I" -> <<".", ".", " ">>
          [] c = "J" -> <<".", "-", "-", "-", " ">>
          [] c = "K" -> <<"-", ".", "-", " ">>
          [] c = "L" -> <<".", "-", ".", ".", " ">>
          [] c = "M" -> <<"-", "-", " ">>
          [] c = "N" -> <<"-", ".", " ">>
          [] c = "O" -> <<"-", "-", "-", " ">>
          [] c = "P" -> <<".", "-", "-", ".", " ">>
          [] c = "Q" -> <<"-", "-", ".", "-", " ">>
          [] c = "R" -> <<".", "-", ".", " ">>
          [] c = "S" -> <<".", ".", ".", " ">>
          [] c = "T" -> <<"-", " ">>
          [] c = "U" -> <<".", ".", "-", " ">>
          [] c = "V" -> <<".", ".", ".", "-", " ">>
          [] c = "W" -> <<".", "-", "-", " ">>
          [] c = "X" -> <<"-", ".", ".", "-", " ">>
          [] c = "Y" -> <<"-", ".", "-", "-", " ">>
          [] c = "Z" -> <<"-", "-", ".", ".", " ">>
          [] c = "1" -> <<".", "-", "-", "-", "-", " ">>
          [] c = "2" -> <<".", ".", "-", "-", "-", " ">>
          [] c = "3" -> <<".", ".", ".", "-", "-", " ">>
          [] c = "4" -> <<".", ".", ".", ".", "-", " ">>
          [] c = "5" -> <<".", ".", ".", ".", ".", " ">>
          [] c = "6" -> <<"-", ".", ".", ".", ".", " ">>
          [] c = "7" -> <<"-", "-", ".", ".", ".", " ">>
          [] c = "8" -> <<"-", "-", "-", ".", ".", " ">>
          [] c = "9" -> <<"-", "-", "-", "-", ".", " ">>
          [] c = "0" -> <<"-", "-", "-", "-", "-", " ">>
          [] c = "." -> <<".", "-", ".", "-", ".", "-", "\n">>
          [] c = "!" -> <<"-", ".", "-", ".", "-", "-", "\n">>
          [] c = "?" -> <<".", ".", "-", "-", ".", ".", "\n">>
          [] c = "," -> <<"-", "-", ".", ".", "-", "-", " ">>
          [] c = " " -> <<"/">>]

\* encode(word): switcher.get(c, "") of every character of word.upper()
RECURSIVE EncodeUpper(_)
EncodeUpper(word) ==
    IF word = <<>> THEN <<>>
    ELSE (IF Head(word) \in DOMAIN switcher THEN switcher[Head(word)] ELSE <<>>)
         \o EncodeUpper(Tail(word))

encode(word) == EncodeUpper(Upper(word))

\* the first loop of do: build = build + encode(word) for word in text
RECURSIVE EncodeAll(_)
EncodeAll(text) ==
    IF text = <<>> THEN <<>> ELSE encode(Head(text)) \o EncodeAll(Tail(text))

\* the keys of perform's switch: dot, dash, letter, word
switch == {".", "-", " ", "/"}

InvalidArguments(t) == Return(t, tell(error(t.out), "Invalid number of arguments."))

\* do(client, text) up to its test of device.tasked; do(client) without text
\* is a TypeError, which service reports
morse_do(t, busy) ==
    IF Len(Args(t)) > 1
    THEN IF ~busy
         THEN [t EXCEPT !.pc = "do_set", !.out = okay(t.out),
                        !.todo = EncodeAll(Tail(Args(t)))]
         ELSE Return(t, tell(error(t.out), "Device or resource is in use."))
    ELSE InvalidArguments(t)

\* perform's loop body for the next character of the encoded phrase:
\* switch.get(c) is None for a character that is no key, and calling it is a
\* TypeError, which leaves do and is reported by service
morse_perform(t) ==
    IF Head(t.todo) \in switch
    THEN [t EXCEPT !.todo = Tail(t.todo)]
    ELSE InvalidArguments([t EXCEPT !.todo = <<>>])

\* status()
morse_status(busy) == IF busy THEN "DEVICE BUSY" ELSE "READY"

(***************************************************************************)
(* The tasks whose modules are not part of the sources at hand (printer,   *)
(* light, lamp), by the contract the junction relies on: do(client, args)  *)
(* replies through the client, discover() gives a descriptor, status() is  *)
(* optional.                                                               *)
(***************************************************************************)
StatusLess == {"spoke.tasks.light", "spoke.tasks.lamp"}

other_do(t) ==
    IF Len(Args(t)) > 1 THEN Return(t, okay(t.out)) ELSE InvalidArguments(t)

other_status == "READY"

task_discover(task) == "text"

(***************************************************************************)
(* service, discover, status                                               *)
(***************************************************************************)
\* a service that reports an unknown target without the ERROR marker
service_check_unmarked(d, t) ==
    IF Len(Args(t)) < 1
    THEN Return(t, tell(t.out, COMMANDS_HELP["service"]))
    ELSE IF Target(t) \notin KeySet(d)
         THEN Return(t, tell(t.out, "Service '" \o Target(t) \o "' not available."))
         ELSE [t EXCEPT !.pc = "service_get"]

\* service(client, args) up to its test "target not in SERVICES.keys()"
service_check(d, t) ==
    IF Len(Args(t)) < 1
    THEN Return(t, tell(t.out, COMMANDS_HELP["service"]))
    ELSE IF Target(t) \notin KeySet(d)
         THEN Return(t, tell(error(t.out),
                             "Service '" \o Target(t) \o "' not available."))
         ELSE [t EXCEPT !.pc = "service_get"]

ServiceCheck(i) ==
    /\ Starts(i, "service")
    /\ Set(i, service_check(SERVICES, threads[i]))
    /\ UNCHANGED <<SERVICES, store, RUN, CLIENTS, active, cmds, idle, tasked, mainpc>>

\* call = SERVICES.get(target).do : AttributeError when get gives None
service_get(d, t) ==
    IF Get(d, Target(t)) = None
    THEN Raise(t, "AttributeError")
    ELSE [t EXCEPT !.pc = "service_call", !.svc = Get(d, Target(t))]

ServiceGet(i) ==
    /\ At(i, "service_get")
    /\ Set(i, service_get(SERVICES, threads[i]))
    /\ UNCHANGED <<SERVICES, store, RUN, CLIENTS, active, cmds, idle, tasked, mainpc>>

\* a do that tests and sets device.tasked in one step
MorseDo_atomic(i) ==
    /\ At(i, "service_call")
    /\ threads[i].svc = ALL_SERVICES["morse"]
    /\ Set(i, morse_do(threads[i], tasked))
    /\ tasked' = (tasked \/ morse_do(threads[i], tasked).pc = "do_set")
    /\ UNCHANGED <<SERVICES, store, RUN, CLIENTS, active, cmds, idle, mainpc>>

MorseDo(i) ==
    /\ At(i, "service_call")
    /\ threads[i].svc = ALL_SERVICES["morse"]
    /\ Set(i, morse_do(threads[i], tasked))
    /\ UNCHANGED <<SERVICES, store, RUN, CLIENTS, active, cmds, idle, tasked, mainpc>>

\* device.tasked = True
MorseSet(i) ==
    /\ At(i, "do_set")
    /\ tasked' = TRUE
    /\ Set(i, [threads[i] EXCEPT !.pc = "perform"])
    /\ UNCHANGED <<SERVICES, store, RUN, CLIENTS, active, cmds, idle, mainpc>>

MorsePerform(i) ==
    /\ At(i, "perform")
    /\ threads[i].todo # <<>>
    /\ Set(i, morse_perform(threads[i]))
    /\ UNCHANGED <<SERVICES, store, RUN, CLIENTS, active, cmds, idle, tasked, mainpc>>

\* perform has returned: device.tasked = False
MorseClear(i) ==
    /\ At(i, "perform")
    /\ threads[i].todo = <<>>
    /\ tasked' = FALSE
    /\ Set(i, Return(threads[i], threads[i].out))
    /\ UNCHANGED <<SERVICES, store, RUN, CLIENTS, active, cmds, idle, mainpc>>

OtherDo(i) ==
    /\ At(i, "service_call")
    /\ threads[i].svc # ALL_SERVICES["morse"]
    /\ Set(i, other_do(threads[i]))
    /\ UNCHANGED <<SERVICES, store, RUN, CLIENTS, active, cmds, idle, tasked, mainpc>>

\* discover: iter(SERVICES.keys()) remembers the size of the dict
DiscoverStart(i) ==
    /\ Starts(i, "discover")
    /\ Set(i, [threads[i] EXCEPT !.pc = "discover_next",
                                 !.used = Len(SERVICES), !.pos = 0])
    /\ UNCHANGED <<SERVICES, store, RUN, CLIENTS, active, cmds, idle, tasked, mainpc>>

\* the iterator's next(): RuntimeError when the dict has changed size,
\* else the next key, else the loop ends and tell(client, str(build))
discover_next(d, t) ==
    IF Len(d) # t.used
    THEN Raise(t, "RuntimeError")
    ELSE IF t.pos >= Len(d)
         THEN Return(t, tell(t.out, "{" \o t.build \o "}"))
         ELSE [t EXCEPT !.pc = "discover_get", !.svc = Keys(d)[t.pos + 1],
                        !.pos = t.pos + 1]

DiscoverNext(i) ==
    /\ At(i, "discover_next")
    /\ Set(i, discover_next(SERVICES, threads[i]))
    /\ UNCHANGED <<SERVICES, store, RUN, CLIENTS, active, cmds, idle, tasked, mainpc>>

\* build[svc] = SERVICES.get(svc).discover()
discover_get(d, t) ==
    IF Get(d, t.svc) = None
    THEN Raise(t, "AttributeError")
    ELSE [t EXCEPT !.pc = "discover_next",
                   !.build = (IF t.build = "" THEN "" ELSE t.build \o ", ")
                             \o "'" \o t.svc \o "': '"
                             \o task_discover(Get(d, t.svc)) \o "'"]

DiscoverGet(i) ==
    /\ At(i, "discover_get")
    /\ Set(i, discover_get(SERVICES, threads[i]))
    /\ UNCHANGED <<SERVICES, store, RUN, CLIENTS, active, cmds, idle, tasked, mainpc>>

\* status(client, args) up to target_call = SERVICES.get(target)
status_get(d, t) ==
    IF Len(Args(t)) < 1
    THEN Return(t, tell(t.out, COMMANDS_HELP["status"]))
    ELSE IF Get(d, Target(t)) # None
         THEN [t EXCEPT !.pc = "status_call", !.svc = Get(d, Target(t))]
         ELSE Return(t, tell(error(t.out),
                             "'" \o Target(t) \o "' not recognized as a service."))

StatusGet(i) ==
    /\ Starts(i, "status")
    /\ Set(i, status_get(SERVICES, threads[i]))
    /\ UNCHANGED <<SERVICES, store, RUN, CLIENTS, active, cmds, idle, tasked, mainpc>>

\* tell(client, target_call.status()), AttributeError caught
status_call(t, busy) ==
    IF t.svc \in StatusLess
    THEN Return(t, tell(error(t.out), "'" \o Target(t) \o "' does not support status."))
    ELSE Return(t, tell(t.out, IF t.svc = ALL_SERVICES["morse"]
                               THEN morse_status(busy) ELSE other_status))

StatusCall(i) ==
    /\ At(i, "status_call")
    /\ Set(i, status_call(threads[i], tasked))
    /\ UNCHANGED <<SERVICES, store, RUN, CLIENTS, active, cmds, idle, tasked, mainpc>>

\* the thread's target has returned or raised: the thread is gone
ThreadExit(i) ==
    /\ i \in ThreadIds
    /\ threads[i].pc \in {"done"} \cup Exceptions
    /\ threads' = [threads EXCEPT ![i] = NoThread]
    /\ UNCHANGED <<SERVICES, store, RUN, CLIENTS, active, cmds, idle, tasked, mainpc>>

(***************************************************************************)
(* Inputs: the files found at boot and the clients of each environment     *)
(***************************************************************************)
RegistryFiles ==
    { NoFile, [exists |-> TRUE, names |-> <<"morse">>],
      [exists |-> TRUE, names |-> <<"bogus", "morse">>] }

RegistryClients == 1..2

(***************************************************************************)
(* The initial state: the module's globals as the module sets them, before *)
(* read_services() runs; the persisted file is whatever an earlier run     *)
(* left.                                                                   *)
(***************************************************************************)
InitWith(files) ==
    /\ SERVICES = <<>>
    /\ store \in files
    /\ RUN = TRUE
    /\ CLIENTS = <<>>
    /\ active = [c \in ClientIds |-> FALSE]
    /\ cmds = [c \in ClientIds |-> <<>>]
    /\ idle = [c \in ClientIds |-> 0]
    /\ tasked = FALSE
    /\ mainpc = "read_services"
    /\ threads = [i \in ThreadIds |-> NoThread]

Init == InitWith(RegistryFiles)

Next ==
    \/ ReadServices
    \/ PollQuiet
    \/ \E c \in RegistryClients : PollAccept(c)
    \/ \E c \in RegistryClients, l \in RegistryLines :
          Outstanding < Cardinality(RegistryClients) /\ PollRecv(c, <<l>>)
    \/ Shutdown
    \/ Process
    \/ KickIdle
    \/ \E i \in ThreadIds :
          \/ StopSave(i) \/ StopRun(i) \/ Save(i) \/ Enable(i)
          \/ DisableCheck(i) \/ DisablePop(i)
          \/ ServiceCheck(i) \/ ServiceGet(i)
          \/ MorseDo(i) \/ MorseSet(i) \/ MorsePerform(i) \/ MorseClear(i)
          \/ DiscoverStart(i) \/ DiscoverNext(i) \/ DiscoverGet(i)
          \/ StatusGet(i) \/ StatusCall(i)
          \/ ThreadExit(i)

Spec == Init /\ [][Next]_vars

(***************************************************************************)
(* One session that sends its next line when the last one has been         *)
(* answered, over every kind of command line, booting from any persisted   *)
(* file and restarting at any time.                                        *)
(***************************************************************************)
FileNames == {"print", "bogus"}

BootFiles ==
    {NoFile} \cup
    { [exists |-> TRUE, names |-> names] :
        names \in UNION { [1..k -> FileNames] : k \in 0..MaxFileLen } }

InitCommands == InitWith(BootFiles)

NextCommands ==
    \/ ReadServices
    \/ PollQuiet
    \/ PollAccept(1)
    \/ \E l \in CommandLines : Outstanding = 0 /\ PollRecv(1, <<l>>)
    \/ Shutdown
    \/ Process
    \/ KickIdle
    \/ Restart
    \/ \E i \in ThreadIds :
          \/ InterpretEmpty(i) \/ InterpretUnknown(i) \/ Hlp(i) \/ Close(i)
          \/ StopSave(i) \/ StopRun(i) \/ Save(i) \/ Enable(i)
          \/ DisableCheck(i) \/ DisablePop(i)
          \/ ServiceCheck(i) \/ ServiceGet(i)
          \/ MorseDo(i) \/ MorseSet(i) \/ MorsePerform(i) \/ MorseClear(i)
          \/ OtherDo(i)
          \/ DiscoverStart(i) \/ DiscoverNext(i) \/ DiscoverGet(i)
          \/ StatusGet(i) \/ StatusCall(i)
          \/ ThreadExit(i)

SpecCommands == InitCommands /\ [][NextCommands]_vars

(***************************************************************************)
(* Sessions that connect, send a line now and then, fall silent or lose    *)
(* their connection, while time passes.                                    *)
(***************************************************************************)
IdleClients == 1..2

InitIdle == InitWith({NoFile})

NextIdle ==
    \/ ReadServices
    \/ PollQuiet
    \/ \E c \in IdleClients : PollAccept(c)
    \/ \E c \in IdleClients, l \in IdleLines : Outstanding = 0 /\ PollRecv(c, <<l>>)
    \/ \E c \in IdleClients : PollLost(c)
    \/ Process
    \/ KickIdle
    \/ Tick
    \/ \E i \in ThreadIds : Hlp(i) \/ ThreadExit(i)

SpecIdle == InitIdle /\ [][NextIdle]_vars

(***************************************************************************)
(* Three sessions that use the morse task, enabled by the persisted file.  *)
(* Every started thread keeps being scheduled, and the main thread keeps   *)
(* cycling: poll() returns after its timeout when nothing arrives.         *)
(***************************************************************************)
\* the session has no line buffered and no command running
Answered(c) == cmds[c] = <<>> /\ c \notin ThreadClients

InitMorse == InitWith({[exists |-> TRUE, names |-> <<"morse">>]})

MainLoop == PollQuiet \/ Process \/ KickIdle

MorseThread(i) ==
    \/ Hlp(i) \/ ServiceCheck(i) \/ ServiceGet(i)
    \/ MorseDo(i) \/ MorseSet(i) \/ MorsePerform(i) \/ MorseClear(i)
    \/ ThreadExit(i)

NextMorse ==
    \/ ReadServices
    \/ MainLoop
    \/ \E c \in ClientIds : PollAccept(c)
    \/ \E c \in ClientIds : Answered(c) /\ PollRecv(c, <<MorseLine(c)>>)
    \/ \E i \in ThreadIds : MorseThread(i)

SpecMorse ==
    /\ InitMorse
    /\ [][NextMorse]_vars
    /\ WF_vars(MainLoop)
    /\ \A i \in ThreadIds : WF_vars(MorseThread(i))

(***************************************************************************)
(* A session at a time that sends several lines at once, closes itself,    *)
(* falls idle or stops the server, from a boot with morse persisted or     *)
(* with no file.  The main thread keeps cycling until RUN is False and     *)
(* then leaves the loop; every started thread keeps being scheduled.       *)
(***************************************************************************)
SessionClients == 1..1

\* what one socket_recv() completes: the lines of a batch, in this order
SessionBatches ==
    { << Line(<<w_service, w_morse, w_e>>), Line(<<w_end>>), Line(<<w_help>>) >>,
      << Line(<<w_service, w_morse, w_e>>), Line(<<w_help>>) >>,
      << Line(<<w_service, w_morse, w_e>>), Line(<<w_stop>>) >>,
      << Line(<<w_stop>>) >> }

InitSession == InitWith({NoFile, [exists |-> TRUE, names |-> <<"morse">>]})

SessionThread(i) ==
    \/ Hlp(i) \/ Close(i) \/ StopSave(i) \/ StopRun(i)
    \/ ServiceCheck(i) \/ ServiceGet(i)
    \/ MorseDo(i) \/ MorseSet(i) \/ MorsePerform(i) \/ MorseClear(i)
    \/ ThreadExit(i)

NextSession ==
    \/ ReadServices
    \/ MainLoop
    \/ Shutdown
    \/ \E c \in SessionClients : PollAccept(c)
    \/ \E c \in SessionClients, b \in SessionBatches : Answered(c) /\ PollRecv(c, b)
    \/ Tick
    \/ \E i \in ThreadIds : SessionThread(i)

SpecSession ==
    /\ InitSession
    /\ [][NextSession]_vars
    /\ WF_vars(MainLoop)
    /\ WF_vars(Shutdown)
    /\ \A i \in ThreadIds : WF_vars(SessionThread(i))

(***************************************************************************)
(* Properties                                                              *)
(***************************************************************************)
Ended(t) == t.pc \in {"done"} \cup Exceptions

\* C1: every command handed to interpret ends with the prompt written to
\* its session, as the last thing written for that command
C1_PromptLast ==
    \A i \in ThreadIds :
        Ended(threads[i]) =>
            /\ threads[i].out # <<>>
            /\ threads[i].out[Len(threads[i].out)] = PROMPT

\* C4: every key of SERVICES is a key of ALL_SERVICES and maps to the
\* object ALL_SERVICES maps it to
C4_RegistryInCatalog ==
    \A k \in 1..Len(SERVICES) :
        /\ SERVICES[k][1] \in DOMAIN ALL_SERVICES
        /\ SERVICES[k][2] = ALL_SERVICES[SERVICES[k][1]]

C4_Witness ==
    /\ "morse" \in KeySet(SERVICES)
    /\ \E i, j \in ThreadIds :
          /\ threads[i].pc = "disable_pop"
          /\ threads[j].pc = "stop_run"

\* C6: no handler sees the registry change under it: service finds the
\* name it tested for when it fetches do, discover finds every name its
\* iteration gave, and no handler ends with an exception
C6_RegistrySynchronized ==
    \A i \in ThreadIds :
        /\ threads[i].pc = "service_get" => Target(threads[i]) \in KeySet(SERVICES)
        /\ threads[i].pc = "discover_get" => threads[i].svc \in KeySet(SERVICES)
        /\ threads[i].pc \notin Exceptions

\* thread i takes a step of interpret (it neither starts nor goes away)
StepOf(i) ==
    /\ threads[i] # NoThread
    /\ threads'[i] # NoThread
    /\ threads'[i] # threads[i]

NameSet(names) == {names[k] : k \in 1..Len(names)}

\* read_services() runs to its end, or to an exception
Boots == mainpc = "read_services" /\ mainpc' # "read_services"

\* C2: read_services on a persisted list with a name that is no key of
\* ALL_SERVICES does not raise, and SERVICES then holds exactly the
\* persisted names that are keys of ALL_SERVICES
C2_LoadSkipsUnknown ==
    [][ (Boots /\ store.exists) =>
            /\ mainpc' = "poll"
            /\ KeySet(SERVICES') = NameSet(store.names) \cap DOMAIN ALL_SERVICES
      ]_vars

\* C3: what save_services writes is the key list of SERVICES, without loss
\* or repetition, and read_services run on it from an empty SERVICES gives
\* the same key set again; with no file, read_services leaves SERVICES
\* empty and does not raise
C3_SaveLoadRoundTrip ==
    [][ /\ store' # store =>
            /\ store'.exists
            /\ NameSet(store'.names) = KeySet(SERVICES)
            /\ Len(store'.names) = Cardinality(KeySet(SERVICES))
            /\ read_services(<<>>, store').raised = None
            /\ KeySet(read_services(<<>>, store').services) = KeySet(SERVICES)
            /\ Len(read_services(<<>>, store').services) = Len(SERVICES)
        /\ (Boots /\ store.exists /\ NameSet(store.names) \subseteq DOMAIN ALL_SERVICES
                  /\ Cardinality(NameSet(store.names)) = Len(store.names)) =>
            /\ mainpc' = "poll"
            /\ Keys(SERVICES') = store.names
        /\ (Boots /\ ~store.exists) =>
            /\ mainpc' = "poll"
            /\ SERVICES' = <<>>
      ]_vars

\* a boot has just loaded a file that names morse and lamp, which only a
\* save or stop of an earlier run can have written
C3_Witness ==
    /\ mainpc = "poll"
    /\ CLIENTS = <<>>
    /\ threads = [i \in ThreadIds |-> NoThread]
    /\ store.exists
    /\ {"morse", "lamp"} \subseteq NameSet(store.names)
    /\ Keys(SERVICES) = store.names

Enabled(name) == name \in KeySet(SERVICES)

NotAvailable(t) ==
    <<"ERROR\n", "Service '" \o Target(t) \o "' not available.\n", PROMPT>>

\* C5, for one session whose commands follow one another: the steps of
\* enable and disable
C5_Steps ==
    \A i \in ThreadIds :
        LET t == threads[i]
            u == threads'[i]
        IN  /\ (StepOf(i) /\ t.pc = "start" /\ t.command = "enable" /\ Len(t.args) >= 1) =>
                IF Target(t) \in DOMAIN ALL_SERVICES
                THEN /\ Target(t) \in KeySet(SERVICES')
                     /\ Enabled(Target(t)) => SERVICES' = SERVICES
                     /\ u.pc = "done" /\ u.out = <<"OKAY\n", PROMPT>>
                ELSE /\ SERVICES' = SERVICES
                     /\ u.pc = "done" /\ Len(u.out) = 3 /\ u.out[1] = "ERROR\n"
            /\ (StepOf(i) /\ t.pc = "start" /\ t.command = "disable" /\ Len(t.args) >= 1) =>
                /\ SERVICES' = SERVICES
                /\ IF Enabled(Target(t))
                   THEN u.pc = "disable_pop"
                   ELSE u.pc = "done" /\ Len(u.out) = 3 /\ u.out[1] = "ERROR\n"
            /\ (StepOf(i) /\ t.pc = "disable_pop") =>
                /\ Target(t) \notin KeySet(SERVICES')
                /\ u.pc = "done" /\ u.out = <<"OKAY\n", PROMPT>>
            /\ (StepOf(i) /\ t.pc = "start" /\ t.command = "service" /\ Len(t.args) >= 1) =>
                IF Enabled(Target(t))
                THEN u.pc = "service_get"
                ELSE u.pc = "done" /\ u.out = NotAvailable(t)
            /\ (StepOf(i) /\ t.pc = "service_get") =>
                u.pc = "service_call" /\ u.svc = ALL_SERVICES[Target(t)]
            /\ (StepOf(i) /\ t.pc = "start" /\ t.command = "status" /\ Len(t.args) >= 1
                          /\ Enabled(Target(t))) =>
                u.pc = "status_call" /\ u.svc = ALL_SERVICES[Target(t)]

\* C5: enable X puts X in SERVICES and replies OKAY, twice as once; a
\* following service X or status X finds X; a following disable X takes X
\* out, after which service X replies ERROR, not available; enable of a name
\* outside the catalog and disable of a name not enabled reply ERROR and
\* leave SERVICES as it is
C5_EnableDisable == [][C5_Steps]_vars

\* morse was enabled and saved, then disabled, and service morse has just
\* been refused
C5_Witness ==
    /\ store.exists
    /\ "morse" \in NameSet(store.names)
    /\ ~Enabled("morse")
    /\ \E i \in ThreadIds :
          /\ threads[i].pc = "done"
          /\ threads[i].command = "service"
          /\ threads[i].out = <<"ERROR\n", "Service 'morse' not available.\n", PROMPT>>

\* C9: a line whose first token, lower-cased, is no key of COMMANDS is
\* answered with ERROR, a message naming that command and the prompt, in
\* one step that runs no handler and leaves the session's active flag,
\* SERVICES and RUN as they are
C9_Steps ==
    \A i \in ThreadIds :
        LET t == threads[i]
            u == threads'[i]
        IN  (StepOf(i) /\ t.pc = "start" /\ t.n > 0 /\ t.command \notin COMMANDS) =>
                /\ u.pc = "done"
                /\ u.out = <<"ERROR\n",
                             "Command '" \o Str(Lower(Split(t.line)[1])) \o "' not found.\n",
                             PROMPT>>
                /\ t.line = Line(<<w_Bogus, w_morse>>) =>
                       u.out[2] = "Command 'bogus' not found.\n"
                /\ UNCHANGED <<SERVICES, store, RUN, CLIENTS, active, cmds, idle,
                               tasked, mainpc>>

C9_UnknownCommand == [][C9_Steps]_vars

C9_Witness ==
    \E i \in ThreadIds :
        /\ threads[i].line = Line(<<w_Bogus, w_morse>>)
        /\ threads[i].pc = "done"
        /\ threads[i].out = <<"ERROR\n", "Command 'bogus' not found.\n", PROMPT>>
        /\ active[threads[i].c]
        /\ Enabled("morse")

\* the user errors, as thread t meets them with the registry d: an unknown
\* command, a service name that is not enabled (service, status, disable)
\* or not in the catalog (enable), do called without the arguments it
\* takes, status of a task that has none
UserError(t, d) ==
    \/ t.pc = "start" /\ t.n > 0 /\ t.command \notin COMMANDS
    \/ /\ t.pc = "start" /\ t.command \in {"service", "status", "disable"}
       /\ Len(t.args) >= 1 /\ Target(t) \notin KeySet(d)
    \/ /\ t.pc = "start" /\ t.command = "enable"
       /\ Len(t.args) >= 1 /\ Target(t) \notin DOMAIN ALL_SERVICES
    \/ t.pc = "service_call" /\ Len(t.args) = 1
    \/ t.pc = "status_call" /\ t.svc \in StatusLess

\* service, status, enable or disable without the name they require
MissingArgument(t) ==
    /\ t.pc = "start"
    /\ t.command \in {"service", "status", "enable", "disable"}
    /\ Len(t.args) = 0

\* the reply is the ERROR marker, a message and the prompt
Reported(u) ==
    /\ u.pc = "done"
    /\ Len(u.out) = 3
    /\ u.out[1] = "ERROR\n"
    /\ u.out[2] \notin {"", "\n"}
    /\ u.out[3] = PROMPT

\* the session stays active and the server keeps running
Unharmed == active' = active /\ RUN' = RUN /\ mainpc' = mainpc

\* C10 as claimed: every user error, a missing required argument included,
\* is answered with the ERROR marker and a message, and leaves the session
\* active and the server running
C10_Claimed ==
    [][ \A i \in ThreadIds :
          (StepOf(i) /\ (UserError(threads[i], SERVICES) \/ MissingArgument(threads[i]))) =>
              Reported(threads'[i]) /\ Unharmed
      ]_vars

\* C10 as the code has it: every user error but a missing required argument
\* is answered with the ERROR marker and a message; service, status, enable
\* and disable without their argument are answered with the command's help
\* text and no marker; all leave the session active and the server running
C10_UserErrors ==
    [][ \A i \in ThreadIds :
          /\ (StepOf(i) /\ UserError(threads[i], SERVICES)) =>
                 Reported(threads'[i]) /\ Unharmed
          /\ (StepOf(i) /\ MissingArgument(threads[i])) =>
                 /\ threads'[i].pc = "done"
                 /\ threads'[i].out =
                        <<COMMANDS_HELP[threads[i].command] \o "\n", PROMPT>>
                 /\ Unharmed
      ]_vars

C10_Witness ==
    \E i \in ThreadIds :
        /\ threads[i].line = Line(<<w_disable>>)
        /\ threads[i].pc = "done"
        /\ threads[i].out = <<COMMANDS_HELP["disable"] \o "\n", PROMPT>>
        /\ active[threads[i].c]
        /\ RUN
        /\ mainpc \in {"poll", "process", "kick_idle"}

Sweeps == mainpc = "kick_idle" /\ mainpc' = "poll"

Polls == mainpc = "poll" /\ mainpc' = "process"

\* C8: kick_idle closes every session idle for more than IDLE_TIMEOUT and
\* no other, and removes none; a closed session stays closed and the next
\* poll takes it out of CLIENTS
C8_IdleSweep ==
    [][ /\ Sweeps =>
            /\ CLIENTS' = CLIENTS
            /\ \A c \in Connected :
                  /\ idle[c] > IDLE_TIMEOUT => ~active'[c]
                  /\ idle[c] <= IDLE_TIMEOUT => active'[c] = active[c]
        /\ \A c \in Connected : ~active[c] => ~active'[c]
        /\ Polls => \A c \in Connected : ~active[c] => c \notin Connected'
      ]_vars

\* after a sweep: one session idle for more than IDLE_TIMEOUT is closed and
\* still listed, another idle for exactly IDLE_TIMEOUT is open
C8_Witness ==
    /\ mainpc = "poll"
    /\ \E c, d \in Connected :
          /\ idle[c] > IDLE_TIMEOUT /\ ~active[c]
          /\ idle[d] = IDLE_TIMEOUT /\ active[d]

\* thread i is in a service command that has found its task: it is about
\* to call do, or inside it
Executing(i) ==
    /\ threads[i].command = "service"
    /\ threads[i].pc \in {"service_call", "do_set", "perform"}

\* thread i has answered its session: an outcome first, the prompt last
Replied(i) ==
    /\ threads[i].pc = "done"
    /\ threads[i].out[1] \in {"OKAY\n", "ERROR\n"}
    /\ threads[i].out[Len(threads[i].out)] = PROMPT

TwoExecuting(i, j) ==
    /\ i # j
    /\ Executing(i) /\ Executing(j)
    /\ threads[i].c # threads[j].c

\* the main thread can take its next step, and so can every thread that
\* has not ended, whatever the other threads are doing
NobodyWaits ==
    /\ mainpc \in {"poll", "process", "kick_idle"} => ENABLED MainLoop
    /\ \A k \in Running : ENABLED MorseThread(k)

\* C7: of two service commands of two sessions that run at the same time,
\* both come to their end with a reply; meanwhile nothing waits for them:
\* a command ready on a third session is started and comes to its end
C7_ServiceConcurrent ==
    /\ []NobodyWaits
    /\ \A i \in ThreadIds :
          (\E j \in ThreadIds : TwoExecuting(i, j)) ~> Replied(i)
    /\ \A c \in ClientIds :
          (\E i, j \in ThreadIds :
              /\ TwoExecuting(i, j)
              /\ c \in Connected /\ Ready(c)
              /\ c \notin {threads[i].c, threads[j].c})
          ~> (\E k \in ThreadIds : threads[k].c = c /\ threads[k].pc = "done")

\* two sessions are inside perform, and the command of a third, started
\* after them, has come to its end
C7_Witness ==
    \E i, j, k \in ThreadIds :
        /\ TwoExecuting(i, j)
        /\ threads[i].pc = "perform" /\ threads[j].pc = "perform"
        /\ threads[k].pc = "done"
        /\ threads[k].c \notin {threads[i].c, threads[j].c}

\* the line has no token: it is empty or holds whitespace only
Blank(line) == \A k \in 1..Len(line) : line[k] \in Whitespace

\* C11 as claimed: a line with zero tokens is answered with an empty line
\* (a line terminator and nothing before it, as tell writes lines) and then
\* the prompt, in one step of interpret that runs no handler and leaves
\* SERVICES, RUN and the session's active flag as they are
C11_Claimed ==
    [][ \A i \in ThreadIds :
          (StepOf(i) /\ threads[i].pc = "start" /\ Blank(threads[i].line)) =>
              /\ threads'[i].pc = "done"
              /\ threads'[i].out = <<"\n", PROMPT>>
              /\ UNCHANGED <<SERVICES, store, RUN, CLIENTS, active, cmds, idle,
                             tasked, mainpc>>
      ]_vars

\* C11 as the code has it: a line with zero tokens is answered with the
\* empty text (client.send(""), no line terminator) and then the prompt,
\* in one step of interpret that runs no handler and leaves SERVICES, RUN,
\* the session's active flag and all else as they are
C11_EmptyLine ==
    [][ \A i \in ThreadIds :
          (StepOf(i) /\ threads[i].pc = "start" /\ Blank(threads[i].line)) =>
              /\ threads'[i].pc = "done"
              /\ threads'[i].out = <<"", PROMPT>>
              /\ UNCHANGED <<SERVICES, store, RUN, CLIENTS, active, cmds, idle,
                             tasked, mainpc>>
      ]_vars

\* a line of a tab and a space has been answered, with morse enabled and
\* the session open
C11_Witness ==
    \E i \in ThreadIds :
        /\ threads[i].line = <<"\t">> \o SP
        /\ threads[i].pc = "done"
        /\ threads[i].out = <<"", PROMPT>>
        /\ active[threads[i].c]
        /\ Enabled("morse")
        /\ RUN

\* C13: the persisted file changes only in a step of save or stop; every
\* other command, the idle sweep and the rest of the main loop leave it as
\* it is, and a boot starts from an empty SERVICES and takes names from the
\* file alone, so what was enabled or disabled and not saved is gone
C13_StoreOnlyBySave ==
    [][ /\ store' # store =>
            \E i \in ThreadIds :
                /\ StepOf(i)
                /\ threads[i].pc = "start"
                /\ threads[i].command \in {"save", "stop"}
        /\ (mainpc = "kick_idle" /\ mainpc' # mainpc) => store' = store
        /\ Boots =>
            /\ SERVICES = <<>>
            /\ KeySet(SERVICES') \subseteq NameSet(store.names)
      ]_vars

\* morse was enabled and saved; since then morse was disabled and lamp
\* enabled, and the file still names morse alone
C13_Witness ==
    /\ store.exists
    /\ store.names = <<"morse">>
    /\ Keys(SERVICES) = <<"lamp">>
    /\ \E i \in ThreadIds :
          /\ threads[i].pc = "done"
          /\ threads[i].command = "enable"
          /\ threads[i].out = <<"OKAY\n", PROMPT>>

\* the step of thread t to u ends the command with the reply ERROR,
\* "Invalid number of arguments."
ArgumentError(t, u) ==
    /\ u.pc = "done"
    /\ t.pc # "done"
    /\ Len(u.out) >= 3
    /\ u.out[Len(u.out) - 2] = "ERROR\n"
    /\ u.out[Len(u.out) - 1] = "Invalid number of arguments.\n"

\* service is about to call do with the client alone: do(client), which no
\* task's do(client, text) accepts; with more than the name, service calls
\* do(client, args[1:]), which it accepts
WrongCount(t) == t.pc = "service_call" /\ Len(t.args) = 1

\* C15: service replies ERROR, "Invalid number of arguments." exactly when
\* do was called with an argument count it does not accept; a failure of
\* another kind inside do is not reported so
C15_ArityOnly ==
    [][ \A i \in ThreadIds :
          StepOf(i) => (ArgumentError(threads[i], threads'[i]) <=> WrongCount(threads[i]))
      ]_vars

\* C19: device.tasked is True only while a do invocation that set it is
\* still inside perform: once every such invocation has ended the flag is
\* False again
C19_BusyReleased ==
    tasked => \E i \in ThreadIds : threads[i].pc = "perform"

\* the OKAY and ERROR markers among what thread t has written
Markers(t) == {k \in 1..Len(t.out) : t.out[k] \in {"OKAY\n", "ERROR\n"}}

\* C20: a service command that found its service enabled has written, when
\* it ends, exactly one outcome marker, OKAY or ERROR, and the prompt last
C20_OneMarker ==
    \A i \in ThreadIds :
        (threads[i].pc = "done" /\ threads[i].command = "service"
            /\ threads[i].svc # None) =>
            /\ Cardinality(Markers(threads[i])) = 1
            /\ threads[i].out[Len(threads[i].out)] = PROMPT

\* the line with the characters of its first token in lower case
LowerCommand(line) ==
    IF WordStarts(line) = {} THEN line
    ELSE LET s == CHOOSE s \in WordStarts(line) : \A x \in WordStarts(line) : s <= x
             e == WordEnd(line, s)
         IN  [k \in 1..Len(line) |->
                 IF k >= s /\ k <= e THEN Lower(<<line[k]>>)[1] ELSE line[k]]

\* help's reply for the command named name, typed as typed
HelpText(typed, name) == <<typed \o ": " \o COMMANDS_HELP[name] \o "\n", PROMPT>>

\* C16: a line whose command name is typed in any mix of cases gives
\* interpret the command and the arguments that the same line with the name
\* in lower case gives, and so the same handler; and help, given a command
\* name in any mix of cases, replies with that command's help text
C16_CaseInsensitive ==
    [][ \A i \in ThreadIds :
          LET t == threads[i]
              u == threads'[i]
          IN  /\ (StepOf(i) /\ t.pc = "start" /\ t.n > 0) =>
                     /\ interpret_locals(t.line) = interpret_locals(LowerCommand(t.line))
                     /\ t.command = interpret_locals(LowerCommand(t.line)).command
              /\ (StepOf(i) /\ t.pc = "start" /\ t.command = "help" /\ Len(t.args) >= 1
                            /\ Str(Lower(t.args[1])) \in DOMAIN COMMANDS_HELP) =>
                     /\ u.pc = "done"
                     /\ u.out \in { HelpText(Str(t.args[1]), Str(Lower(t.args[1]))),
                                    HelpText(Str(Lower(t.args[1])), Str(Lower(t.args[1]))) }
      ]_vars

\* thread i is about to call morse's do with a text
CallsMorse(i) ==
    /\ threads[i].pc = "service_call"
    /\ threads[i].svc = ALL_SERVICES["morse"]
    /\ Len(threads[i].args) > 1

\* C17: do tests device.tasked and sets it in separate steps, and nothing
\* keeps a second do out in between: a thread that calls do while the flag
\* is False can always take that step, whatever the other threads are in
\* the middle of; the step replies OKAY and leaves the flag False, to be set
\* by a later step of the same thread
C17_CheckThenSet ==
    /\ [](\A i \in ThreadIds : CallsMorse(i) => ENABLED MorseDo(i))
    /\ [][ \A i \in ThreadIds :
              (StepOf(i) /\ CallsMorse(i) /\ ~tasked) =>
                  /\ threads'[i].pc = "do_set"
                  /\ threads'[i].out = <<"OKAY\n">>
                  /\ tasked' = FALSE
          ]_vars

\* two sessions' service morse commands have both read device.tasked as
\* False, both replied OKAY and are both inside perform with symbols left
C17_Witness ==
    \E i, j \in ThreadIds :
        /\ threads[i].c # threads[j].c
        /\ threads[i].pc = "perform" /\ threads[j].pc = "perform"
        /\ threads[i].out = <<"OKAY\n">> /\ threads[j].out = <<"OKAY\n">>
        /\ threads[i].todo # <<>> /\ threads[j].todo # <<>>
        /\ tasked

\* C12, the steps: stop first writes the key list of SERVICES to the file
\* and leaves RUN as it is; RUN becomes False only in the next step of that
\* stop; once RUN is False it stays False and no cycle of the loop starts
C12_Steps ==
    /\ \A i \in ThreadIds :
          (StepOf(i) /\ threads[i].pc = "start" /\ threads[i].command = "stop") =>
              /\ store' = Pickled(SERVICES)
              /\ RUN' = RUN
              /\ threads'[i].pc = "stop_run"
    /\ (RUN /\ ~RUN') => \E i \in ThreadIds : StepOf(i) /\ threads[i].pc = "stop_run"
    /\ ~RUN => (~RUN' /\ ~Polls)

\* C12: stop writes the file and only then sets RUN to False, so the file
\* has been written in every state where RUN is False; from then on no
\* cycle starts, and the main thread, having finished the cycle it is in,
\* leaves the loop
C12_StopSavesThenEnds ==
    /\ [][C12_Steps]_vars
    /\ [](~RUN => store.exists)
    /\ (~RUN) ~> (mainpc = "shutdown")

\* the server booted without a file and was stopped with nothing enabled:
\* the loop has ended, and the file, written by stop, names nothing
C12_Witness ==
    /\ ~RUN
    /\ mainpc = "shutdown"
    /\ store.exists
    /\ store.names = <<>>
    /\ \E i \in ThreadIds : threads[i].command = "stop" /\ threads[i].pc = "done"

\* the threads that this step starts for session c
Dispatched(c) ==
    {i \in ThreadIds : threads[i] = NoThread /\ threads'[i] # NoThread /\ threads'[i].c = c}

\* process() runs
Dispatches == mainpc = "process" /\ mainpc' = "kick_idle"

\* C14, the steps: process() starts, for a listed session that is active
\* and has lines, one thread, for the line that completed first, and takes
\* that line off the session's list; it starts none for any other session;
\* no other step starts a thread, and none but the removal of the session
\* takes away or reorders the lines that wait
C14_Steps ==
    \A c \in ClientIds :
        /\ (Dispatches /\ c \in Connected /\ Ready(c)) =>
               /\ Cardinality(Dispatched(c)) = 1
               /\ \A i \in Dispatched(c) :
                      threads'[i].line = Head(cmds[c]) /\ threads'[i].pc = "start"
               /\ cmds'[c] = Tail(cmds[c])
        /\ (Dispatches /\ ~(c \in Connected /\ Ready(c))) =>
               Dispatched(c) = {} /\ cmds'[c] = cmds[c]
        /\ ~Dispatches =>
               /\ Dispatched(c) = {}
               /\ (c \in Connected /\ c \in Connected') =>
                      /\ Len(cmds'[c]) >= Len(cmds[c])
                      /\ SubSeq(cmds'[c], 1, Len(cmds[c])) = cmds[c]

\* C14: within a session, lines are dispatched in the order they
\* completed, at most one in a cycle, each once
C14_DispatchOrder == [][C14_Steps]_vars

\* of two lines of one session received together, help, dispatched a
\* cycle after service morse e, has replied while service morse e is still
\* inside perform
C14_Witness ==
    \E i, j \in ThreadIds :
        /\ threads[i].c = threads[j].c
        /\ threads[i].line = Line(<<w_service, w_morse, w_e>>)
        /\ threads[i].pc = "perform"
        /\ threads[j].line = Line(<<w_help>>)
        /\ threads[j].pc = "done"

\* the main loop has a next step: a part of its cycle, or its end
LoopGoesOn ==
    mainpc \in {"poll", "process", "kick_idle"} => ENABLED (MainLoop \/ Shutdown)

\* C18, the steps: end and exit set the session's active flag to False; a
\* listed session whose flag is False keeps it False, and no thread is
\* started for it, whatever lines it has
C18_Steps ==
    /\ \A i \in ThreadIds :
          (StepOf(i) /\ threads[i].pc = "start"
              /\ threads[i].command \in {"end", "exit"}) => ~active'[threads[i].c]
    /\ \A c \in Connected :
          ~active[c] =>
              /\ Dispatched(c) = {}
              /\ c \in Connected' => (~active'[c] /\ cmds'[c] = cmds[c])

\* C18: once close has run on a session its active flag is False and
\* process never dispatches a line of it again; a command of it that is
\* running comes to its end, and the main loop is not held up
C18_ClosedStaysClosed ==
    /\ [][C18_Steps]_vars
    /\ []LoopGoesOn
    /\ \A i \in ThreadIds :
          (threads[i] # NoThread /\ ~active[threads[i].c]) ~>
              (threads[i] = NoThread \/ threads[i].pc = "done")

\* process() has just passed over a closed session that has a line
\* waiting, while an earlier command of that session is inside perform
C18_Witness ==
    /\ mainpc = "kick_idle"
    /\ \E c \in Connected :
          /\ ~active[c]
          /\ cmds[c] = <<Line(<<w_help>>)>>
          /\ \E i, j \in ThreadIds :
                /\ threads[i].c = c /\ threads[i].command = "end"
                /\ threads[i].pc = "done"
                /\ threads[j].c = c /\ threads[j].pc = "perform"
                /\ threads[j].todo # <<>>

====
